---- MODULE Spec2Model ----
(***************************************************************************)
(* PromisePool of packages/promises/src/utils.ts: a bounded-concurrency    *)
(* executor of promise generators.  Every entry point of the class         *)
(* (enqueue, start, close) and every completion continuation (promiseDone, *)
(* promiseRejected) is one atomic action: JavaScript runs each of them to  *)
(* completion on the single event-loop thread.                             *)
(*                                                                         *)
(* A promise created by a generator is identified by the index of the      *)
(* queue entry whose generator created it (every generator call is taken   *)
(* to return a fresh promise).  Indices are 0-based as in the source.      *)
(*                                                                         *)
(* The listeners of an event are the entries of its Map in insertion       *)
(* order; a callback is a name, and calling it does not call the pool.     *)
(***************************************************************************)
EXTENDS Integers, Sequences, FiniteSets, TLC

\* ---------------------------------------------------------------- bounds
\* Number of tasks that may be admitted in one behaviour.
MaxTasks == 3

\* Number of on() and once() calls in one behaviour.
MaxRegistrations == 2

\* ------------------------------------------------------ program constants
DEFAULT_CONCURRENCY == 10
\* Number.POSITIVE_INFINITY: larger than every count of the model, and so is
\* POSITIVE_INFINITY - 1.
POSITIVE_INFINITY == 1000000

\* Messages of the two errors enqueue() throws.
ClosedMessage == "PromisePool already closed"
PerformedMessage == "PromisePool already performed"

\* The event names of POOL_EVENT_TYPE.
POOL_EVENT_TYPE == {"start", "full", "next", "close", "available"}

\* ------------------------------------------------------------------ inputs
\* What a PromiseFunction does when the pool calls it: "ok" returns a promise
\* that fulfils, "fail" a promise that rejects, "throw" throws synchronously
\* (no promise is created).
Kinds == {"ok", "fail", "throw"}

\* The value a generator fulfils with, rejects with or throws.  Every
\* generator has a value of its own, named by the generator's identity id:
\* two tasks never yield equal values, so a value found in a slot tells
\* which task it came from.
Payload(id) == [payload |-> id]

\* The generator the caller passes to its n-th admitted enqueue() (n from 0).
PromiseFunction(kind, id) == [kind |-> kind, val |-> Payload(id)]

\* Exceptions: none in flight, or an Error with a message, or a Payload.
NoError == [type |-> "none"]
Error(message) == [type |-> "Error", message |-> message]

\* options.concurrency values a pool is constructed with.
Concurrencies == {-1, 0, 1, 2, POSITIVE_INFINITY}

\* options.autoStart: unset, true or false.
AutoStartOptions == {"unset", "true", "false"}

\* The callbacks a caller passes to on() and once(), and the event types it
\* passes them for.
Callbacks == {"cbA", "cbB"}
ListenedTypes == {"next", "full"}

VARIABLES
    size,          \* this.size
    rejectOnError, \* options.rejectOnError (unset is FALSE)
    autoStart,     \* options.autoStart
    currentIndex,  \* this.currentIndex
    running,       \* this.#running: sequence of promises (by index)
    enqueued,      \* this.#enqueued: sequence of [index, generator]
    result,        \* this.result: sparse array, a function on the written indices
    isStarted,     \* this.#isStarted
    isClosed,      \* this.#isClosed
    isResolved,    \* this.#isResolved
    promise,       \* this.#promise: the result handle
    inflight,      \* promises created by a generator and not yet settled
    launchOrder,   \* history: indices whose generator returned a promise, in order
    admitted,      \* history: generators of the successful enqueue() calls, in order
    call,          \* the entry point the last step ran, and the promise it was for
    emitted,       \* events passed to #emit during the last step, in order
    raised,        \* what the last step threw to its caller (NoError if it returned)
    listeners,     \* this.#listeners: per event type, the Map entries in insertion order
    invoked,       \* listener calls of the last step, in order: [type, cb]
    writes,        \* history: number of assignments made to each slot of this.result
    persistent,    \* history: the [type, cb] pairs passed to on()
    registrations  \* history: number of calls of on() and once()

vars == <<size, rejectOnError, autoStart, currentIndex, running, enqueued, result,
          isStarted, isClosed, isResolved, promise, inflight, launchOrder,
          admitted, call, emitted, raised, listeners, invoked, writes,
          persistent, registrations>>

\* The pool as a record, threaded through the methods below.  thrown is the
\* exception in flight (NoError when there is none).
Pool ==
    [currentIndex |-> currentIndex, running |-> running, enqueued |-> enqueued,
     result |-> result, isStarted |-> isStarted, isClosed |-> isClosed,
     isResolved |-> isResolved, promise |-> promise, inflight |-> inflight,
     launchOrder |-> launchOrder, admitted |-> admitted,
     listeners |-> listeners, writes |-> writes, persistent |-> persistent,
     registrations |-> registrations,
     emitted |-> <<>>, invoked |-> <<>>, thrown |-> NoError]

\* ---------------------------------------------------------------- helpers
\* The values of the result array.
Success(v) == [type |-> "value", value |-> v]
PoolErrorImpl(index, catched) == [type |-> "PoolError", index |-> index, catched |-> catched]

\* Promise resolve / reject functions: only the first settlement counts.
PendingPromise == [state |-> "pending"]
Resolve(p, value) == IF p.state = "pending" THEN [state |-> "fulfilled", value |-> value] ELSE p
Reject(p, reason) == IF p.state = "pending" THEN [state |-> "rejected", reason |-> reason] ELSE p

\* Array.prototype.indexOf on #running: 1-based position here, 0 for "not found".
IndexOf(run, p) ==
    IF \E k \in 1..Len(run) : run[k] = p
    THEN CHOOSE k \in 1..Len(run) : run[k] = p /\ \A j \in 1..(k - 1) : run[j] # p
    ELSE 0

\* Array.prototype.splice(k, 1).
Splice(run, k) == SubSeq(run, 1, k - 1) \o SubSeq(run, k + 1, Len(run))

\* result[index] = value.
BadSetResult(res, index, value) == (Cardinality(DOMAIN res) :> value) @@ res
SetResult(res, index, value) == (index :> value) @@ res

\* One more assignment to result[index].
CountWrite(w, index) == (index :> (IF index \in DOMAIN w THEN w[index] + 1 ELSE 1)) @@ w

\* Map.prototype.set on a listener Map: a key already present keeps its place
\* and takes the new flag, a new key goes last.
MapSet(map, cb, once) ==
    IF \E k \in 1..Len(map) : map[k].cb = cb
    THEN [k \in 1..Len(map) |-> IF map[k].cb = cb THEN [cb |-> cb, once |-> once] ELSE map[k]]
    ELSE Append(map, [cb |-> cb, once |-> once])

\* Map.prototype.delete.
MapDelete(map, cb) == SelectSeq(map, LAMBDA e : e.cb # cb)

\* The for..of loop of #emit over the Map of one event type: pending holds the
\* entries the iterator has not visited yet.  A Map iterator walks the entries
\* in insertion order and deleting the entry it stands on does not move it.
RECURSIVE SkippingEmitLoop(_, _, _)
SkippingEmitLoop(map, pending, called) ==
    IF pending = <<>> THEN [map |-> map, called |-> called]
    ELSE LET e == Head(pending) IN
         IF e.once
         THEN SkippingEmitLoop(MapDelete(map, e.cb),
                               IF Len(pending) > 1 THEN Tail(Tail(pending)) ELSE <<>>,
                               Append(called, e.cb))
         ELSE SkippingEmitLoop(map, Tail(pending), Append(called, e.cb))
RECURSIVE EmitLoop(_, _, _)
EmitLoop(map, pending, called) ==
    IF pending = <<>> THEN [map |-> map, called |-> called]
    ELSE LET e == Head(pending) IN
         EmitLoop(IF e.once THEN MapDelete(map, e.cb) ELSE map,
                  Tail(pending), Append(called, e.cb))

\* #emit(type).  The callbacks of the model return without calling the pool.
Emit(s, type) ==
    LET r == EmitLoop(s.listeners[type], s.listeners[type], <<>>) IN
    [s EXCEPT !.emitted = Append(@, type),
              !.listeners[type] = r.map,
              !.invoked = @ \o [k \in 1..Len(r.called) |-> [type |-> type, cb |-> r.called[k]]]]

\* on(type, cb) and once(type, cb).
OnOp(s, type, cb) ==
    [s EXCEPT !.listeners[type] = MapSet(@, cb, FALSE),
              !.persistent = @ \cup {[type |-> type, cb |-> cb]},
              !.registrations = @ + 1]
OnceOp(s, type, cb) ==
    [s EXCEPT !.listeners[type] = MapSet(@, cb, TRUE), !.registrations = @ + 1]

\* ------------------------------------------------------------- constructor
\* this.size = options?.concurrency || DEFAULT_CONCURRENCY
PoolSize(concurrency) == IF concurrency = 0 THEN DEFAULT_CONCURRENCY ELSE concurrency

\* options?.autoStart ?? true
BadAutoStartEnabled == autoStart = "true"
AutoStartEnabled == autoStart # "false"

Init ==
    /\ size \in {PoolSize(c) : c \in Concurrencies}
    /\ rejectOnError \in BOOLEAN
    /\ autoStart \in AutoStartOptions
    /\ currentIndex = 0
    /\ running = <<>>
    /\ enqueued = <<>>
    /\ result = <<>>
    /\ isStarted = FALSE
    /\ isClosed = FALSE
    /\ isResolved = FALSE
    /\ promise = PendingPromise
    /\ inflight = {}
    /\ launchOrder = <<>>
    /\ admitted = <<>>
    /\ call = [op |-> "new"]
    /\ emitted = <<>>
    /\ raised = NoError
    /\ listeners = [type \in POOL_EVENT_TYPE |-> <<>>]
    /\ invoked = <<>>
    /\ writes = <<>>
    /\ persistent = {}
    /\ registrations = 0

\* ------------------------------------------------------------------ runNext
\* The condition of the while loop of runNext.
BadCanLaunch(run, enq) == Len(run) <= size /\ Len(enq) # 0
CanLaunch(run, enq) == Len(run) < size /\ Len(enq) # 0

\* The while loop of runNext: shifts entries off the queue, calls each
\* generator and pushes its promise; a generator that throws ends the loop
\* (and runNext) with its entry already shifted.
RECURSIVE LifoRunLoop(_, _, _, _)
LifoRunLoop(run, enq, added, launched) ==
    IF CanLaunch(run, enq)
    THEN LET nextQueuedPromise == enq[Len(enq)] IN
         IF nextQueuedPromise.generator.kind = "throw"
         THEN [running |-> run, enqueued |-> SubSeq(enq, 1, Len(enq) - 1), added |-> added,
               launched |-> launched, thrown |-> nextQueuedPromise.generator.val]
         ELSE LifoRunLoop(Append(run, nextQueuedPromise.index), SubSeq(enq, 1, Len(enq) - 1),
                          added + 1, Append(launched, nextQueuedPromise.index))
    ELSE [running |-> run, enqueued |-> enq, added |-> added,
          launched |-> launched, thrown |-> NoError]
RECURSIVE RunLoop(_, _, _, _)
RunLoop(run, enq, added, launched) ==
    IF CanLaunch(run, enq)
    THEN LET nextQueuedPromise == Head(enq) IN
         IF nextQueuedPromise.generator.kind = "throw"
         THEN [running |-> run, enqueued |-> Tail(enq), added |-> added,
               launched |-> launched, thrown |-> nextQueuedPromise.generator.val]
         ELSE RunLoop(Append(run, nextQueuedPromise.index), Tail(enq), added + 1,
                      Append(launched, nextQueuedPromise.index))
    ELSE [running |-> run, enqueued |-> enq, added |-> added,
          launched |-> launched, thrown |-> NoError]

\* if (this.#running.length >= this.size) { if (added) this.#emit("full") }
BadEmitsFull(run, added) == Len(run) >= size
EmitsFull(run, added) == Len(run) >= size /\ added # 0

\* The idle branch of runNext: resolves the handle of a closed pool.
BadSettleIfClosed(s) == [s EXCEPT !.isResolved = TRUE, !.promise = Resolve(@, s.result)]
SettleIfClosed(s) ==
    IF s.isClosed
    THEN [s EXCEPT !.isResolved = TRUE, !.promise = Resolve(@, s.result)]
    ELSE s

RunNext(s) ==
    IF ~s.isStarted THEN s
    ELSE IF Len(s.enqueued) # 0
    THEN LET r == RunLoop(s.running, s.enqueued, 0, <<>>)
             s1 == [s EXCEPT !.running = r.running,
                             !.enqueued = r.enqueued,
                             !.inflight = @ \cup {r.launched[k] : k \in 1..Len(r.launched)},
                             !.launchOrder = @ \o r.launched]
         IN  IF r.thrown # NoError THEN [s1 EXCEPT !.thrown = r.thrown]
             ELSE IF EmitsFull(r.running, r.added) THEN Emit(s1, "full")
             ELSE s1
    ELSE IF Len(s.running) = 0
    THEN SettleIfClosed(s)
    ELSE IF Len(s.running) = size - 1 THEN Emit(s, "available")
    ELSE s

\* -------------------------------------------------------------------- start
StartOp(s) ==
    RunNext(IF ~s.isStarted THEN [Emit(s, "start") EXCEPT !.isStarted = TRUE] ELSE s)

\* ------------------------------------------------------------------ enqueue
\* The two guards of enqueue(): the error it throws, or NoError.
BadEnqueueGuard(s) ==
    IF s.isResolved THEN Error(PerformedMessage)
    ELSE IF s.isClosed THEN Error(ClosedMessage)
    ELSE NoError
EnqueueGuard(s) ==
    IF s.isClosed THEN Error(ClosedMessage)
    ELSE IF s.isResolved THEN Error(PerformedMessage)
    ELSE NoError

EnqueueOp(s, promiseGenerator) ==
    IF EnqueueGuard(s) # NoError THEN [s EXCEPT !.thrown = EnqueueGuard(s)]
    ELSE LET s1 == [s EXCEPT !.enqueued = Append(@, [index |-> s.currentIndex,
                                                     generator |-> promiseGenerator]),
                             !.currentIndex = @ + 1,
                             !.admitted = Append(@, promiseGenerator)]
         IN  IF AutoStartEnabled /\ ~s1.isStarted THEN StartOp(s1)
             ELSE IF s1.isStarted THEN RunNext(s1)
             ELSE s1

\* -------------------------------------------------------------------- close
BadCloseOp(s) == RunNext([s EXCEPT !.isClosed = TRUE])
CloseOp(s) == StartOp([s EXCEPT !.isClosed = TRUE])

\* ------------------------------------------- promiseDone / promiseRejected
SilentPromiseDoneOp(s, p, value, index) ==
    IF s.isResolved THEN s
    ELSE LET promiseIndex == IndexOf(s.running, p) IN
         IF promiseIndex > 0
         THEN RunNext([s EXCEPT !.running = Splice(@, promiseIndex),
                                !.result = SetResult(@, index, Success(value)),
                                !.writes = CountWrite(@, index)])
         ELSE s
UnguardedPromiseDoneOp(s, p, value, index) ==
    LET promiseIndex == IndexOf(s.running, p) IN
    IF promiseIndex > 0
    THEN RunNext(Emit([s EXCEPT !.running = Splice(@, promiseIndex),
                                !.result = SetResult(@, index, Success(value)),
                                !.writes = CountWrite(@, index)],
                      "next"))
    ELSE s
PromiseDoneOp(s, p, value, index) ==
    IF s.isResolved THEN s
    ELSE LET promiseIndex == IndexOf(s.running, p) IN
         IF promiseIndex > 0
         THEN RunNext(Emit([s EXCEPT !.running = Splice(@, promiseIndex),
                                     !.result = SetResult(@, index, Success(value)),
                                     !.writes = CountWrite(@, index)],
                           "next"))
         ELSE s

BadPromiseRejectedOp(s, p, error, index) ==
    IF s.isResolved THEN s
    ELSE LET promiseIndex == IndexOf(s.running, p) IN
         IF promiseIndex > 0
         THEN LET s1 == [s EXCEPT !.running = Splice(@, promiseIndex),
                                  !.result = SetResult(@, index, PoolErrorImpl(index, error)),
                                  !.writes = CountWrite(@, index)]
              IN  IF rejectOnError
                  THEN [s1 EXCEPT !.isResolved = TRUE,
                                  !.promise = Reject(@, PoolErrorImpl(index, error))]
                  ELSE RunNext(Emit(s1, "next"))
         ELSE s
OverwritingPromiseRejectedOp(s, p, error, index) ==
    IF s.isResolved THEN s
    ELSE LET promiseIndex == IndexOf(s.running, p)
             s1 == [s EXCEPT !.running = IF promiseIndex > 0 THEN Splice(@, promiseIndex) ELSE @,
                             !.result = SetResult(@, index, PoolErrorImpl(index, error)),
                             !.writes = CountWrite(@, index)]
         IN  IF rejectOnError
             THEN [s1 EXCEPT !.isResolved = TRUE, !.promise = Reject(@, error)]
             ELSE RunNext(Emit(s1, "next"))
PromiseRejectedOp(s, p, error, index) ==
    IF s.isResolved THEN s
    ELSE LET promiseIndex == IndexOf(s.running, p) IN
         IF promiseIndex > 0
         THEN LET s1 == [s EXCEPT !.running = Splice(@, promiseIndex),
                                  !.result = SetResult(@, index, PoolErrorImpl(index, error)),
                                  !.writes = CountWrite(@, index)]
              IN  IF rejectOnError
                  THEN [s1 EXCEPT !.isResolved = TRUE, !.promise = Reject(@, error)]
                  ELSE RunNext(Emit(s1, "next"))
         ELSE s

\* nextPromise.then(promiseDone).catch(promiseRejected) for a promise that
\* fulfils: an exception thrown out of promiseDone rejects the promise that
\* then() returned, and the catch() continuation hands it to promiseRejected
\* with the same promise and index.
ThenCatch(s, p, value, index) ==
    LET s1 == PromiseDoneOp(s, p, value, index) IN
    IF s1.thrown # NoError
    THEN PromiseRejectedOp([s1 EXCEPT !.thrown = NoError], p, s1.thrown, index)
    ELSE s1

\* ------------------------------------------------------------------ actions
Commit(s, name, exc) ==
    /\ currentIndex' = s.currentIndex
    /\ running' = s.running
    /\ enqueued' = s.enqueued
    /\ result' = s.result
    /\ isStarted' = s.isStarted
    /\ isClosed' = s.isClosed
    /\ isResolved' = s.isResolved
    /\ promise' = s.promise
    /\ inflight' = s.inflight
    /\ launchOrder' = s.launchOrder
    /\ admitted' = s.admitted
    /\ emitted' = s.emitted
    /\ listeners' = s.listeners
    /\ invoked' = s.invoked
    /\ writes' = s.writes
    /\ persistent' = s.persistent
    /\ registrations' = s.registrations
    /\ call' = name
    /\ raised' = exc
    /\ UNCHANGED <<size, rejectOnError, autoStart>>

\* pool.enqueue(g); an admission needs a free index of the model.
Enqueue ==
    \E kind \in Kinds :
        /\ EnqueueGuard(Pool) = NoError => currentIndex < MaxTasks
        /\ LET s == EnqueueOp(Pool, PromiseFunction(kind, Len(admitted)))
           IN  Commit(s, [op |-> "enqueue"], s.thrown)

\* pool.start()
Start == \E s \in {StartOp(Pool)} : Commit(s, [op |-> "start"], s.thrown)

\* pool.close()
Close == \E s \in {CloseOp(Pool)} : Commit(s, [op |-> "close"], s.thrown)

\* The promise of task p fulfils and its continuations run.
PromiseDone ==
    \E p \in inflight :
        /\ admitted[p + 1].kind = "ok"
        /\ LET s == ThenCatch(Pool, p, admitted[p + 1].val, p)
           IN  Commit([s EXCEPT !.inflight = @ \ {p}], [op |-> "promiseDone", p |-> p], NoError)

\* The promise of task p rejects and its continuations run.  An exception
\* thrown out of promiseRejected is an unhandled rejection, not an exception
\* of any caller of the pool.
PromiseRejected ==
    \E p \in inflight :
        /\ admitted[p + 1].kind = "fail"
        /\ LET s == PromiseRejectedOp(Pool, p, admitted[p + 1].val, p)
           IN  Commit([s EXCEPT !.inflight = @ \ {p}],
                      [op |-> "promiseRejected", p |-> p], NoError)

Next == Enqueue \/ Start \/ Close \/ PromiseDone \/ PromiseRejected

Spec == Init /\ [][Next]_vars

\* Every promise a generator returned eventually settles and its
\* continuations run; the caller's own calls are never forced.
LiveSpec == Spec /\ WF_vars(PromiseDone) /\ WF_vars(PromiseRejected)

\* ----------------------------------------------------------- on and once
\* pool.on(type, cb)
On ==
    \E type \in ListenedTypes, cb \in Callbacks :
        /\ registrations < MaxRegistrations
        /\ Commit(OnOp(Pool, type, cb), [op |-> "on", type |-> type, cb |-> cb], NoError)

\* pool.once(type, cb)
Once ==
    \E type \in ListenedTypes, cb \in Callbacks :
        /\ registrations < MaxRegistrations
        /\ Commit(OnceOp(Pool, type, cb), [op |-> "once", type |-> type, cb |-> cb], NoError)

\* A pool of two slots in accumulate mode whose caller also registers
\* listeners.
ListenInit == Init /\ size = 2 /\ ~rejectOnError /\ autoStart = "unset"
ListenNext == On \/ Once \/ Enqueue \/ Start \/ Close \/ PromiseDone \/ PromiseRejected
ListenSpec == ListenInit /\ [][ListenNext]_vars

\* ------------------------------------------------------ parallel and serie
\* The options argument of parallel() and serie(), as far as the cap goes:
\* <<>> when it carries no concurrency, <<c>> when it carries concurrency c.
OptionConcurrencies == {<<>>} \cup {<<c>> : c \in Concurrencies}

\* { concurrency: Number.POSITIVE_INFINITY, ...options }
ParallelConcurrency(opt) == IF opt = <<>> THEN POSITIVE_INFINITY ELSE opt[1]

\* { ...options, concurrency: 1 }
BadSerieConcurrency(opt) == IF opt = <<>> THEN 1 ELSE opt[1]
SerieConcurrency(opt) == 1

\* The commands argument: up to MaxTasks generators, the k-th with the
\* value of its own.
Commands ==
    UNION {{[k \in 1..n |-> PromiseFunction(kinds[k], k - 1)] : kinds \in [1..n -> Kinds]} :
               n \in 0..MaxTasks}

\* for (const cmd of commands) pool.enqueue(cmd): an exception ends the loop.
RECURSIVE EnqueueAll(_, _)
EnqueueAll(s, commands) ==
    IF commands = <<>> \/ s.thrown # NoError THEN s
    ELSE EnqueueAll(EnqueueOp(s, Head(commands)), Tail(commands))

\* The body of parallel() and serie() on the pool they built: enqueue every
\* command, then close().  An empty commands returns Promise.resolve([]).
RunCommands(s, commands) ==
    IF commands = <<>> THEN [s EXCEPT !.promise = Resolve(@, <<>>)]
    ELSE LET s1 == EnqueueAll(s, commands) IN
         IF s1.thrown # NoError THEN s1 ELSE CloseOp(s1)

\* serie(commands, options), called once; the pool is private to the call,
\* so afterwards only completions reach it.
Serie ==
    \E commands \in Commands :
        /\ call = [op |-> "new"]
        /\ LET s == RunCommands(Pool, commands)
           IN  Commit(s, [op |-> "serie", n |-> Len(commands)], s.thrown)

\* parallel(commands, options), called once.
Parallel ==
    \E commands \in Commands :
        /\ call = [op |-> "new"]
        /\ LET s == RunCommands(Pool, commands)
           IN  Commit(s, [op |-> "parallel", n |-> Len(commands)], s.thrown)

SerieInit == Init /\ size \in {PoolSize(SerieConcurrency(opt)) : opt \in OptionConcurrencies}
SerieNext == Serie \/ PromiseDone \/ PromiseRejected
SerieSpec == SerieInit /\ [][SerieNext]_vars

ParallelInit == Init /\ size \in {PoolSize(ParallelConcurrency(opt)) : opt \in OptionConcurrencies}
ParallelNext == Parallel \/ PromiseDone \/ PromiseRejected
ParallelSpec == ParallelInit /\ [][ParallelNext]_vars
\* ----------------------------------------------------- observation helpers
Range(seq) == {seq[k] : k \in 1..Len(seq)}

\* The pool was built with a finite positive cap.
FiniteCap == size > 0 /\ size # POSITIVE_INFINITY

\* The admitted indices.
Admitted == 0..(currentIndex - 1)

\* What task i yields: the value it fulfils with, or the PoolError wrapping
\* the cause it fails with.
OutcomeOf(i) ==
    IF admitted[i + 1].kind = "ok"
    THEN Success(admitted[i + 1].val)
    ELSE PoolErrorImpl(i, admitted[i + 1].val)

\* Promises removed from #running by the step.
Removed == {p \in Range(running) : p \notin Range(running')}

\* Tasks whose promise has rejected.
Failed == {i \in Range(launchOrder) : admitted[i + 1].kind = "fail" /\ i \notin inflight}

\* ------------------------------------------------------------------ claims

\* C1: for a pool built with a finite positive cap, the running count never
\* exceeds the cap, whatever calls and completions happen.
C1_RunningWithinCap == FiniteCap => Len(running) <= size

\* A full pool with tasks waiting behind it.
C1_Witness == size = 2 /\ Len(running) = 2 /\ Len(enqueued) > 0

C3_AccumulateCompleteSequence ==
    ~rejectOnError =>
        /\ promise.state # "rejected"
        /\ promise.state = "fulfilled" =>
               \A i \in Admitted :
                   /\ i \in DOMAIN promise.value
                   /\ promise.value[i] = OutcomeOf(i)

\* C4: in fail-fast mode the first task whose promise rejects (first in
\* completion order) rejects the result handle with that task's own cause,
\* unwrapped, and a rejected handle never changes again, whatever follows.
C4_FailFastFirstCause ==
    [][rejectOnError =>
          /\ \A p \in Range(launchOrder') :
                 (Failed = {} /\ Failed' = {p}) =>
                     promise' = [state |-> "rejected", reason |-> admitted[p + 1].val]
          /\ promise.state = "rejected" => promise' = promise]_vars

\* Task 1 failed before task 0: the handle carries the cause of task 1 and
\* kept it when task 0 failed in turn.
C4_Witness ==
    /\ rejectOnError
    /\ promise = [state |-> "rejected", reason |-> Payload(1)]
    /\ Failed = {0, 1}
    /\ call = [op |-> "promiseRejected", p |-> 0]

\* C5: enqueue() on a closed pool throws the closed error, enqueue() on a
\* pool that settled without having been closed throws the performed error,
\* and neither admits the task.
C5_EnqueueGuards ==
    [][call'.op = "enqueue" =>
          /\ isClosed => raised' = Error(ClosedMessage)
          /\ (~isClosed /\ isResolved) => raised' = Error(PerformedMessage)
          /\ (isClosed \/ isResolved) =>
                 /\ currentIndex' = currentIndex
                 /\ enqueued' = enqueued
                 /\ admitted' = admitted
                 /\ running' = running
                 /\ result' = result]_vars

\* enqueue() refused by a pool that a fail-fast rejection settled before close().
C5_Witness ==
    /\ call = [op |-> "enqueue"]
    /\ raised = Error(PerformedMessage)
    /\ ~isClosed /\ isResolved
    /\ currentIndex < MaxTasks

\* C7: close() on a pool with no admission settles the pool before it
\* returns and the result handle yields the empty sequence, whether or not
\* the pool had been started and whatever autoStart is.
C7_CloseEmptyPool ==
    (call = [op |-> "close"] /\ currentIndex = 0) =>
        /\ isResolved
        /\ promise = [state |-> "fulfilled", value |-> <<>>]
        /\ raised = NoError

\* close() was the first call on a pool built with autoStart = false.
C7_Witness ==
    /\ call = [op |-> "close"]
    /\ currentIndex = 0
    /\ autoStart = "false"
    /\ emitted = <<"start">>
    /\ promise.state = "fulfilled"

\* C8: the step in which the result handle resolves emits the close event.
C8_CloseEventOnResolution ==
    [][(promise.state = "pending" /\ promise'.state = "fulfilled") =>
          "close" \in Range(emitted')]_vars

\* C9: full is emitted exactly once by every step in which the running count
\* goes from below the cap to the cap (a completion that frees a slot and
\* refills it included), and by no other step.
C9_FullOncePerTransition ==
    [][Len(SelectSeq(emitted', LAMBDA e : e = "full")) =
          IF Len(running) - Cardinality(Removed) < size /\ Len(running') = size
          THEN 1 ELSE 0]_vars

\* A completion freed a slot of a full pool and the queue refilled it.
C9_Witness ==
    /\ call.op = "promiseDone"
    /\ emitted = <<"next", "full">>
    /\ Len(running) = size

\* C10: available is emitted by a step if and only if the step is a task
\* completion that leaves exactly cap - 1 promises running.
C10_AvailableIffCompletionFreesSlot ==
    [][("available" \in Range(emitted')) <=>
          (Cardinality(Removed) = 1 /\ Len(running) - 1 = size - 1)]_vars

\* C6: once an accumulate pool is closed, and with every launched promise
\* eventually settling, every task still queued is eventually launched and
\* the result handle eventually resolves.
C6_CloseDrainsAndResolves ==
    /\ \A i \in 0..(MaxTasks - 1) :
           (isClosed /\ ~rejectOnError /\ \E k \in 1..Len(enqueued) : enqueued[k].index = i)
               ~> (i \in Range(launchOrder))
    /\ (isClosed /\ ~rejectOnError) ~> (promise.state = "fulfilled")

\* Number of next events the step emitted.
NextEmitted == Len(SelectSeq(emitted', LAMBDA e : e = "next"))

\* The step is a completion continuation run on a pool that is not settled.
CompletionHandled == call'.op \in {"promiseDone", "promiseRejected"} /\ ~isResolved

\* C11 as claimed: every completion handled while the pool is not settled,
\* success or failure, in either mode, emits next exactly once.
C11_NextOnEveryCompletion ==
    [][CompletionHandled => NextEmitted = 1]_vars

\* C11: every completion handled while the pool is not settled emits next
\* exactly once, except the failure that settles a fail-fast pool, which
\* emits none.
C11_NextUnlessFailFastSettles ==
    [][CompletionHandled =>
          NextEmitted = IF call'.op = "promiseRejected" /\ rejectOnError THEN 0 ELSE 1]_vars

\* A success handled by a fail-fast pool that is not settled.
C11_Witness ==
    /\ rejectOnError
    /\ call.op = "promiseDone"
    /\ emitted = <<"next">>
    /\ ~isResolved

\* C16: with autoStart = false, enqueue() on a pool that is not started
\* launches nothing, emits nothing and leaves the pool not started, and such
\* a pool becomes started only by start() or close(); with autoStart unset or
\* true, an admitted enqueue() on a pool that is not started starts it.
C16_AutoStart ==
    [][/\ (call'.op = "enqueue" /\ ~isStarted /\ autoStart = "false") =>
              /\ ~isStarted'
              /\ emitted' = <<>>
              /\ launchOrder' = launchOrder
              /\ running' = running
       /\ (autoStart = "false" /\ ~isStarted /\ isStarted') =>
              call'.op \in {"start", "close"}
       /\ launchOrder' # launchOrder => isStarted'
       /\ (call'.op = "enqueue" /\ ~isStarted /\ autoStart # "false"
               /\ currentIndex' # currentIndex) =>
              /\ isStarted'
              /\ emitted'[1] = "start"]_vars

\* Two tasks wait in a pool built with autoStart = false that was never started.
C16_Witness ==
    /\ autoStart = "false"
    /\ call.op = "enqueue"
    /\ ~isStarted
    /\ Len(enqueued) = 2
    /\ launchOrder = <<>>

\* C14: the start event is emitted only by a step that finds the pool not
\* started and leaves it started for good (so at most once in a lifetime),
\* and start() on a started pool whose queue is empty changes no pool state
\* and emits no event.
C14_StartIdempotent ==
    [][/\ "start" \in Range(emitted') => (~isStarted /\ isStarted')
       /\ isStarted => isStarted'
       /\ (call'.op = "start" /\ isStarted /\ enqueued = <<>>) =>
              /\ emitted' = <<>>
              /\ <<currentIndex, running, enqueued, result, isStarted, isClosed,
                   isResolved, promise>>' =
                 <<currentIndex, running, enqueued, result, isStarted, isClosed,
                   isResolved, promise>>]_vars

\* C15: no pool has a non-positive cap, so no pool with such a cap ever
\* admits a task.
C15_NoNonPositiveCap == size <= 0 => currentIndex = 0

\* C18: once the pool is settled, no step launches a queued task: the queue
\* and the launched tasks stay as they were.
C18_NoSchedulingAfterSettlement ==
    [][isResolved => (enqueued' = enqueued /\ launchOrder' = launchOrder)]_vars

\* C17 as claimed: in both modes a settled pool is closed, its running set is
\* empty, and its queue is empty unless a fail-fast rejection settled it.
C17_SettledImpliesClosedAndIdle ==
    isResolved =>
        /\ isClosed
        /\ running = <<>>
        /\ (enqueued = <<>> \/ promise.state = "rejected")

\* C17: a pool settled otherwise than by a fail-fast rejection is closed, its
\* running set is empty and its queue is empty.
C17_ResolvedImpliesClosedAndIdle ==
    (isResolved /\ promise.state # "rejected") =>
        /\ isClosed
        /\ running = <<>>
        /\ enqueued = <<>>
        /\ promise.state = "fulfilled"

\* Three tasks ran to completion in a pool that close() then resolved.
C17_Witness ==
    /\ isResolved
    /\ promise.state = "fulfilled"
    /\ DOMAIN promise.value = {0, 1, 2}
    /\ call.op = "close"

\* C19: the result handle is never resolved with a sequence before close()
\* was called: start() on a started, unsettled pool whose queue and running
\* set are empty changes nothing, and enqueue() on it admits the task.
C19_NoResolutionBeforeClose ==
    [][/\ promise'.state = "fulfilled" => isClosed'
       /\ (isStarted /\ ~isClosed /\ ~isResolved /\ enqueued = <<>> /\ running = <<>>) =>
              /\ call'.op = "start" =>
                     /\ ~isResolved' /\ promise' = PendingPromise
                     /\ enqueued' = <<>> /\ running' = <<>>
              /\ call'.op = "enqueue" =>
                     /\ currentIndex' = currentIndex + 1
                     /\ raised' \notin {Error(ClosedMessage), Error(PerformedMessage)}]_vars

\* A pool that ran a task to completion, stayed idle through a start() and
\* then admitted another task.
C19_Witness ==
    /\ call.op = "enqueue"
    /\ ~isClosed /\ ~isResolved
    /\ promise = PendingPromise
    /\ DOMAIN result = {0}
    /\ currentIndex = 2
    /\ raised = NoError

\* C20: after a fail-fast settlement the completion of a task, success or
\* failure, changes nothing: no slot written, running set and queue as they
\* were, no event, no launch, handle unchanged.
C20_CompletionIgnoredAfterFailFast ==
    [][(promise.state = "rejected" /\ call'.op \in {"promiseDone", "promiseRejected"}) =>
          /\ result' = result
          /\ running' = running
          /\ enqueued' = enqueued
          /\ launchOrder' = launchOrder
          /\ emitted' = <<>>
          /\ promise' = promise
          /\ isResolved' /\ isClosed' = isClosed]_vars

\* A task that was running when the pool failed fast completed successfully
\* while another task was still queued.
C20_Witness ==
    /\ promise.state = "rejected"
    /\ call.op = "promiseDone"
    /\ call.p \in Range(running)
    /\ call.p \notin DOMAIN result
    /\ enqueued # <<>>

\* Indices whose generator the pool has called.
Invoked == {i \in Admitted : \A k \in 1..Len(enqueued) : enqueued[k].index # i}

\* C12: serie() runs one task at a time in argument order: at most one
\* promise is running, and a task's generator is called only after the pool
\* has handled the completion of every task before it.
C12_SerieOneAtATime ==
    /\ Len(running) <= 1
    /\ \A i \in Invoked : \A j \in 0..(i - 1) : j \in DOMAIN result /\ j \notin inflight

\* serie() of three tasks, the first two completed and the third running.
C12_Witness ==
    /\ call.op \in {"promiseDone", "promiseRejected"}
    /\ DOMAIN result = {0, 1}
    /\ running = <<2>>
    /\ launchOrder = <<0, 1, 2>>

\* C13: when parallel() returns from a pool with a positive cap, every one
\* of its N tasks has been launched and is running, whatever options were
\* passed.
C13_ParallelLaunchesAll ==
    (call.op = "parallel" /\ raised = NoError /\ size > 0) =>
        (Len(running) = call.n /\ enqueued = <<>>)

\* Number of assignments made so far to result[i].
WritesOf(i) == IF i \in DOMAIN writes THEN writes[i] ELSE 0

\* C21: each result slot is written at most once.  In every step, no index
\* has been assigned more than one time in total, an assignment to slot i is
\* made only by the continuations of the promise that task i returned, and a
\* slot that holds an outcome keeps it unchanged.
C21_SlotsWrittenOnce ==
    [][\A i \in 0..(MaxTasks - 1) :
          /\ WritesOf(i)' <= 1
          /\ (i \in DOMAIN result') = (WritesOf(i)' = 1)
          /\ WritesOf(i)' # WritesOf(i) =>
                (call'.op \in {"promiseDone", "promiseRejected"} /\ call'.p = i
                 /\ i \in Range(launchOrder))
          /\ i \in DOMAIN result => (i \in DOMAIN result' /\ result'[i] = result[i])]_vars

\* C21 witness: in a pool of one slot task 0 fulfilled and its success
\* continuation recorded the value, then launched task 1, whose generator
\* threw; the failure continuation of task 0 ran with that exception and the
\* slot still holds the value, written once.
C21_Witness ==
    /\ size = 1
    /\ call = [op |-> "promiseDone", p |-> 0]
    /\ currentIndex = 2
    /\ admitted[2].kind = "throw"
    /\ enqueued = <<>>
    /\ result = (0 :> Success(Payload(0)))
    /\ WritesOf(0) = 1

\* C22: admission is strict FIFO.  The successful enqueue() calls were given
\* the indices 0, 1, 2, ... in their order, the queue holds the last admitted
\* tasks in index order (so every task that left the queue was admitted before
\* every task still waiting), tasks were launched in strictly increasing index
\* order, an enqueue() that throws consumes no index and admits nothing, and
\* one that returns gives its generator the next index.
C22_StrictFifo ==
    [][/\ Len(admitted') = currentIndex'
       /\ \A k \in 1..Len(enqueued') :
             /\ enqueued'[k].index = currentIndex' - Len(enqueued') + k - 1
             /\ enqueued'[k].generator = admitted'[enqueued'[k].index + 1]
       /\ \A j, k \in 1..Len(launchOrder') : j < k => launchOrder'[j] < launchOrder'[k]
       /\ \A k \in 1..Len(launchOrder') : launchOrder'[k] \in Invoked'
       /\ (call'.op = "enqueue" /\ EnqueueGuard(Pool) # NoError) =>
             (currentIndex' = currentIndex /\ admitted' = admitted /\ enqueued' = enqueued)
       /\ (call'.op = "enqueue" /\ EnqueueGuard(Pool) = NoError) =>
             (currentIndex' = currentIndex + 1 /\ Len(admitted') = Len(admitted) + 1)
       /\ call'.op # "enqueue" => (currentIndex' = currentIndex /\ admitted' = admitted)]_vars

\* C22 witness: a pool of one slot was handed three tasks before it started;
\* tasks 0 and 1 were launched one after the other, in that order, and task 2
\* still waits.
C22_Witness ==
    /\ size = 1
    /\ launchOrder = <<0, 1>>
    /\ running = <<1>>
    /\ Len(enqueued) = 1
    /\ enqueued[1].index = 2

\* C24: a task's failure is never raised out of enqueue(), start() or close().
\* The only exceptions these calls raise are the two guard errors of
\* enqueue(); a task whose generator failed when the pool called it has its
\* failure recorded at its index in accumulate mode, and rejected the result
\* handle in fail-fast mode.
C24_TaskFailureNeverRaised ==
    /\ call.op \in {"enqueue", "start", "close"} =>
          raised \in {NoError, Error(ClosedMessage), Error(PerformedMessage)}
    /\ \A i \in Invoked :
          admitted[i + 1].kind = "throw" =>
             IF rejectOnError THEN promise.state = "rejected" ELSE i \in DOMAIN result

\* Number of entries of a sequence of indices equal to i.
CountIn(seq, i) == Cardinality({k \in 1..Len(seq) : seq[k] = i})

\* The indices waiting in the queue, in order.
Waiting == [k \in 1..Len(enqueued) |-> enqueued[k].index]

\* C25: in accumulate mode every admitted index is in exactly one of the
\* waiting queue, the running set and the set of indices with a recorded
\* outcome, so the three counts add up to the number of successful enqueue()
\* calls.
C25_AdmittedInOnePlace ==
    ~rejectOnError =>
       /\ \A i \in Admitted :
             CountIn(Waiting, i) + CountIn(running, i)
                + (IF i \in DOMAIN result THEN 1 ELSE 0) = 1
       /\ Len(enqueued) + Len(running) + Cardinality(DOMAIN result) = currentIndex

\* The callbacks of a sequence of Map entries, in order.
CallbacksOf(map) == [k \in 1..Len(map) |-> map[k].cb]

\* The callbacks invoked for an event type during the step, in order.
InvokedFor(type) ==
    CallbacksOf(SelectSeq(invoked', LAMBDA c : c.type = type))

\* C23: a once() listener is invoked on the first emission of its event after
\* registration and then removed, and the removal neither skips nor
\* duplicates another listener.  A step that emits an event invokes every
\* callback registered for it exactly once, in registration order, and
\* leaves registered exactly the persistent ones, in the same order; a step
\* that does not emit it invokes none of them; on() and once() put a new
\* callback after the registered ones and leave the order of the others.
C23_OnceRemovedOthersInOrder ==
    [][\A type \in POOL_EVENT_TYPE :
          /\ Len(SelectSeq(emitted', LAMBDA e : e = type)) <= 1
          /\ type \in Range(emitted') =>
                /\ InvokedFor(type) = CallbacksOf(listeners[type])
                /\ listeners'[type] = SelectSeq(listeners[type], LAMBDA e : ~e.once)
          /\ type \notin Range(emitted') =>
                /\ InvokedFor(type) = <<>>
                /\ (call'.op \in {"on", "once"} /\ call'.type = type) =>
                      /\ call'.cb \in Range(CallbacksOf(listeners'[type]))
                      /\ CallbacksOf(SelectSeq(listeners'[type], LAMBDA e : e.cb # call'.cb))
                            = CallbacksOf(SelectSeq(listeners[type], LAMBDA e : e.cb # call'.cb))
                      /\ call'.cb \notin Range(CallbacksOf(listeners[type])) =>
                            listeners'[type][Len(listeners'[type])].cb = call'.cb
                      /\ \E k \in 1..Len(listeners'[type]) :
                            listeners'[type][k] = [cb |-> call'.cb, once |-> call'.op = "once"]
                /\ ~(call'.op \in {"on", "once"} /\ call'.type = type) =>
                      listeners'[type] = listeners[type]]_vars

\* C23 witness: cbA was registered with once("next") and cbB after it with
\* on("next"); a task fulfilled, the emission of "next" invoked cbA then cbB,
\* and only cbB is still registered.
C23_Witness ==
    /\ call.op = "promiseDone"
    /\ invoked = <<[type |-> "next", cb |-> "cbA"], [type |-> "next", cb |-> "cbB"]>>
    /\ listeners["next"] = <<[cb |-> "cbB", once |-> FALSE]>>
    /\ persistent = {[type |-> "next", cb |-> "cbB"]}

\* C26: a callback passed to on(event, cb) is invoked on every later emission
\* of the event, whether or not it was later passed to once(event, cb) too.
C26_PersistentStaysRegistered ==
    [][\A sub \in persistent :
          sub.type \in Range(emitted') => sub \in Range(invoked')]_vars

====
